---- MODULE Spec2Model ----
(***************************************************************************)
(* A model of milkpq (src/src/lib.rs): MilkPQ<T>, a priority queue striped *)
(* over `limit` subqueues, each a BinaryHeap behind a one-bit CAS lock.    *)
(*                                                                         *)
(* Elements are the integers 1..MaxVal; 0 stands for Option::None.         *)
(* Subqueues are indexed 0..limit-1 as in the source.  A heap is the       *)
(* sequence BinaryHeap keeps in its Vec (1-indexed here).                  *)
(*                                                                         *)
(* Memory ordering.  Every acquisition of cas_lock is                      *)
(*   compare_exchange_weak(false, true, Release, Relaxed)                  *)
(* and every release is store(false, Release).  The read-modify-write on   *)
(* the flag is atomic, so the flag itself is a lock.  No acquisition has   *)
(* Acquire ordering, so a critical section is not ordered after the heap   *)
(* writes of the critical section that held the flag before it: the two    *)
(* heap accesses form a data race when nothing else orders them.  The      *)
(* model gives the outcomes of that race: a thread that enters a critical  *)
(* section reads either the heap as last written or the heap as it was     *)
(* before the latest write, when that write was made by another thread     *)
(* while the reader's own call was already in progress (View).  Calls that *)
(* do not overlap in time are taken to be ordered by their callers.        *)
(***************************************************************************)
EXTENDS Integers, Sequences, FiniteSets, Bags, TLC

\* ---------------------------------------------------------------- bounds
MaxQueues  == 2   \* largest `limit` passed to with_queues
MaxThreads == 2   \* largest number of threads sharing &MilkPQ
MaxVal     == 2   \* elements are 1..MaxVal
MaxLen     == 2   \* longest iterator given to extend_ref / from_iter
MaxCalls   == 3   \* calls of the public API per behaviour

None == 0
Val  == 1..MaxVal

VARIABLES
    limit,      \* MilkPQ.queues.len(), also the upper end of MilkPQ.dist
    nthreads,   \* number of threads that share the queue
    pq,         \* pq[j]: Queue.pq of subqueue j, the heap's Vec
    cas_lock,   \* cas_lock[j]: Queue.cas_lock of subqueue j
    prev_pq,    \* prev_pq[j]: pq[j] before the latest write to it
    unsync,     \* unsync[th]: subqueues written by others during th's call
    pc,         \* pc[th]: where thread th is in its call
    i,          \* i[th]: the subqueue index th works on
    t,          \* t[th]: the element th is pushing (None if none)
    iter,       \* iter[th]: elements of extend_ref's iterator still to push
    r,          \* r[th]: what try_pop gave th / what th's call returned
    snap,       \* snap[th]: subqueues copied by clone, entries written by fmt
    conc,       \* conc[th]: methods other threads ran during th's call
    pushed,     \* bag of elements inserted by a push
    popped,     \* bag of elements taken out by pop / strong_pop
    wiped,      \* TRUE once clear or drain was called
    out,        \* the Vec returned by drain / into_sorted_vec
    alive,      \* FALSE once the queue was consumed (into_sorted_vec)
    calls       \* number of API calls made so far

vars == <<limit, nthreads, pq, cas_lock, prev_pq, unsync, pc, i, t, iter,
          r, snap, conc, pushed, popped, wiped, out, alive, calls>>

shape == <<limit, nthreads>>                    \* fixed at construction
story == <<pushed, popped, wiped, out, alive>>  \* what has been done so far

Threads == 1..nthreads
Shards  == 0..(limit - 1)

\* Uniform::new(low, high) asserts low < high and panics otherwise: no queue
\* is constructed then.
UniformNew(low, high) == low < high

\* C24 mutant: the distribution made with Uniform::new_inclusive(0, limit).
SampledInclusive == 0..limit

\* PRNG.sample(self.dist) with dist = Uniform::new(0, limit): the indices
\* low <= j < high.
Sampled == {j \in 0..limit : 0 <= j /\ j < limit}

\* ------------------------------------------------------------ BinaryHeap
\* C7 mutant: sift_up with the comparison turned round, which keeps the
\* least element at the root.
RECURSIVE sift_up_least(_, _, _, _)
sift_up_least(data, start, pos, elt) ==
    IF pos > start /\ elt < data[pos \div 2]
    THEN sift_up_least([data EXCEPT ![pos] = data[pos \div 2]], start, pos \div 2, elt)
    ELSE [data EXCEPT ![pos] = elt]

\* BinaryHeap::sift_up(start, pos): the hole holding elt moves up while its
\* parent is smaller.
RECURSIVE sift_up(_, _, _, _)
sift_up(data, start, pos, elt) ==
    IF pos > start /\ elt > data[pos \div 2]
    THEN sift_up([data EXCEPT ![pos] = data[pos \div 2]], start, pos \div 2, elt)
    ELSE [data EXCEPT ![pos] = elt]

\* BinaryHeap::sift_down_to_bottom(pos): the hole moves down to a leaf along
\* the greater children, then the element is sifted back up.
RECURSIVE sift_down_to_bottom(_, _, _, _)
sift_down_to_bottom(data, start, pos, elt) ==
    IF 2 * pos <= Len(data)
    THEN LET child == IF 2 * pos + 1 <= Len(data) /\ data[2 * pos] <= data[2 * pos + 1]
                      THEN 2 * pos + 1 ELSE 2 * pos
         IN  sift_down_to_bottom([data EXCEPT ![pos] = data[child]], start, child, elt)
    ELSE sift_up(data, start, pos, elt)

\* BinaryHeap::push(item): append, then sift_up(0, old_len).
HeapPush(data, item) == sift_up(Append(data, item), 1, Len(data) + 1, item)

\* BinaryHeap::pop(): the Vec's last element replaces the root, which is
\* returned; None on an empty heap.
HeapPopItem(data) == IF data = <<>> THEN None ELSE data[1]

HeapPopRest(data) ==
    IF Len(data) <= 1 THEN <<>>
    ELSE sift_down_to_bottom(SubSeq(data, 1, Len(data) - 1), 1, 1, data[Len(data)])

\* ---------------------------------------------------------------- helpers
RECURSIVE BagOfSeq(_)
BagOfSeq(s) == IF s = <<>> THEN EmptyBag ELSE BagOfSeq(Tail(s)) (+) SetToBag({Head(s)})

RECURSIVE Concat(_, _)
Concat(h, j) == IF j >= limit THEN <<>> ELSE h[j] \o Concat(h, j + 1)

\* Everything resident in the subqueues, as a bag.
Resident == BagOfSeq(Concat(pq, 0))

Seqs(n) == UNION {[1..k -> Val] : k \in 0..n}

\* No subqueue holds an element.
AllEmpty == \A j \in Shards : pq[j] = <<>>

\* --------------------------------------------------------- memory model
\* What thread th can read as subqueue j's heap inside its critical section.
View(th, j) == IF j \in unsync[th] THEN {pq[j], prev_pq[j]} ELSE {pq[j]}

Active(th) == pc[th] # "idle"

\* The method a thread is in: "push" (push, extend_ref), "pop", "spop"
\* (strong_pop), "clear", "read" (clone, fmt).
Kind(th) ==
    CASE pc[th] \in {"push", "push_cs", "push_rel"}    -> "push"
      [] pc[th] \in {"pop", "pop_cs", "pop_rel"}       -> "pop"
      [] pc[th] \in {"spop", "spop_cs", "spop_rel"}    -> "spop"
      [] pc[th] \in {"clear", "clear_cs", "clear_rel"} -> "clear"
      [] pc[th] \in {"read", "read_cs", "read_rel"}    -> "read"
      [] OTHER                                         -> "none"

\* Thread th writes heap h to subqueue j.
Write(th, j, h) ==
    /\ pq' = [pq EXCEPT ![j] = h]
    /\ unsync' = [u \in Threads |->
                    IF u = th THEN unsync[u] \ {j}
                    ELSE IF Active(u) THEN unsync[u] \cup {j}
                    ELSE unsync[u]]
    /\ prev_pq' = [prev_pq EXCEPT
                     ![j] = IF \E u \in Threads \ {th} : Active(u) THEN pq[j] ELSE h]

\* Thread th's call returns; its locals go out of scope, and nothing it may
\* have missed matters any more.
Returned(th) ==
    /\ pc' = [pc EXCEPT ![th] = "idle"]
    /\ i' = [i EXCEPT ![th] = 0]
    /\ t' = [t EXCEPT ![th] = None]
    /\ r' = [r EXCEPT ![th] = None]
    /\ snap' = [snap EXCEPT ![th] = <<>>]
    /\ conc' = [conc EXCEPT ![th] = {}]
    /\ unsync' = [unsync EXCEPT ![th] = {}]
    /\ prev_pq' = [j \in Shards |->
                     IF \E u \in Threads \ {th} : j \in unsync[u]
                     THEN prev_pq[j] ELSE pq[j]]

\* A thread calls method m through &self, which counts as `cost` calls
\* (extend_ref counts one per element): the call is concurrent with every
\* call in progress.  Idle threads do not differ, so the caller is the
\* lowest-numbered idle thread.
Called(th, m, cost) ==
    /\ calls + cost <= MaxCalls
    /\ alive
    /\ pc[th] = "idle"
    /\ \A u \in Threads : u < th => Active(u)
    /\ calls' = calls + cost
    /\ out' = <<>>
    /\ conc' = [u \in Threads |->
                  IF u = th THEN {Kind(v) : v \in {w \in Threads \ {th} : Active(w)}}
                  ELSE IF Active(u) THEN conc[u] \cup {m}
                  ELSE conc[u]]

\* C2 mutant: the flag is set without the compare: a held flag is taken
\* again.
AcquireUnchecked(th, from, to) ==
    /\ pc[th] = from
    /\ cas_lock' = [cas_lock EXCEPT ![i[th]] = TRUE]
    /\ pc' = [pc EXCEPT ![th] = to]
    /\ UNCHANGED <<shape, story, pq, prev_pq, unsync, i, t, iter, r, snap,
                   conc, calls>>

\* Queue::try_push / try_pop / clear / clone / fmt: the Ok arm of
\* cas_lock.compare_exchange_weak(false, true, Release, Relaxed).
Acquire(th, from, to) ==
    /\ pc[th] = from
    /\ cas_lock[i[th]] = FALSE
    /\ cas_lock' = [cas_lock EXCEPT ![i[th]] = TRUE]
    /\ pc' = [pc EXCEPT ![th] = to]
    /\ UNCHANGED <<shape, story, pq, prev_pq, unsync, i, t, iter, r, snap,
                   conc, calls>>

\* C12 mutant: the critical section ends without the store, and the flag
\* stays held.
ReleaseForgotten(th) == UNCHANGED cas_lock

\* cas_lock.store(false, Release)
Release(th) == cas_lock' = [cas_lock EXCEPT ![i[th]] = FALSE]

\* ------------------------------------------------------------------ Init
\* The pushes of s, one after the other by the only holder of the queue:
\* element k goes to the subqueue f[k] whose try_push succeeded.
RECURSIVE push_all(_, _, _, _)
push_all(h, s, f, k) ==
    IF k > Len(s) THEN h
    ELSE push_all([h EXCEPT ![f[k]] = HeapPush(h[f[k]], s[k])], s, f, k + 1)

\* MilkPQ::with_queues(limit): `limit` empty heaps, every flag free; or
\* FromIterator::from_iter(s): such a queue with the elements of s pushed.
Init ==
    /\ limit \in {n \in 0..MaxQueues : UniformNew(0, n)}
    /\ nthreads \in 1..MaxThreads
    /\ \E s \in Seqs(MaxLen) :
        \E f \in [1..Len(s) -> Shards] :
            /\ pq = push_all([j \in Shards |-> <<>>], s, f, 1)
            /\ pushed = BagOfSeq(s)
    /\ prev_pq = pq
    /\ cas_lock = [j \in Shards |-> FALSE]
    /\ unsync = [th \in Threads |-> {}]
    /\ pc = [th \in Threads |-> "idle"]
    /\ i = [th \in Threads |-> 0]
    /\ t = [th \in Threads |-> None]
    /\ iter = [th \in Threads |-> <<>>]
    /\ r = [th \in Threads |-> None]
    /\ snap = [th \in Threads |-> <<>>]
    /\ conc = [th \in Threads |-> {}]
    /\ popped = EmptyBag
    /\ wiped = FALSE
    /\ out = <<>>
    /\ alive = TRUE
    /\ calls = 0

\* ------------------------------------------------------------------ push
\* MilkPQ::push(t): sample i, then try_push.
CallPush(th) ==
    \E v \in Val, j \in Sampled :
        /\ Called(th, "push", 1)
        /\ pc' = [pc EXCEPT ![th] = "push"]
        /\ t' = [t EXCEPT ![th] = v]
        /\ i' = [i EXCEPT ![th] = j]
        /\ UNCHANGED <<shape, pq, cas_lock, prev_pq, unsync, iter, r, snap,
                       pushed, popped, wiped, alive>>

\* MilkPQ::extend_ref(iter): push the first element, keep the rest.
CallExtendRef(th) ==
    \E s \in Seqs(MaxLen) \ {<<>>}, j \in Sampled :
        /\ Called(th, "push", Len(s))
        /\ pc' = [pc EXCEPT ![th] = "push"]
        /\ t' = [t EXCEPT ![th] = Head(s)]
        /\ iter' = [iter EXCEPT ![th] = Tail(s)]
        /\ i' = [i EXCEPT ![th] = j]
        /\ UNCHANGED <<shape, pq, cas_lock, prev_pq, unsync, r, snap,
                       pushed, popped, wiped, alive>>

\* C13 mutant: the CAS with its arguments exchanged,
\* compare_exchange_weak(true, false, ..): it succeeds on a held flag only.
TryPushOkSwapped(th) ==
    /\ pc[th] = "push"
    /\ cas_lock[i[th]] = TRUE
    /\ cas_lock' = [cas_lock EXCEPT ![i[th]] = FALSE]
    /\ pc' = [pc EXCEPT ![th] = "push_cs"]
    /\ UNCHANGED <<shape, story, pq, prev_pq, unsync, i, t, iter, r, snap,
                   conc, calls>>

\* Queue::try_push, Ok arm of the CAS: the flag was free and is now held.
TryPushOk(th) == Acquire(th, "push", "push_cs")

\* C11 mutant: try_push inserts before it looks at the outcome of the CAS,
\* so a failed attempt leaves a copy behind and the retry inserts another.
TryPushErrDup(th) ==
    \E j \in Shards :
        /\ pc[th] = "push"
        /\ i' = [i EXCEPT ![th] = j]
        /\ pq' = [pq EXCEPT ![i[th]] = HeapPush(pq[i[th]], t[th])]
        /\ UNCHANGED <<shape, story, cas_lock, prev_pq, unsync, pc, t,
                       iter, r, snap, conc, calls>>

\* Queue::try_push, Err arm (flag held, or the weak CAS failed spuriously):
\* push takes t back and samples another index.
TryPushErr(th) ==
    \E j \in Sampled :
        /\ pc[th] = "push"
        /\ i' = [i EXCEPT ![th] = j]
        /\ UNCHANGED <<shape, story, pq, cas_lock, prev_pq, unsync, pc, t,
                       iter, r, snap, conc, calls>>

\* Queue::try_push, inside the critical section: pq.push(t).
PushHeap(th) ==
    \E h \in View(th, i[th]) :
        /\ pc[th] = "push_cs"
        /\ Write(th, i[th], HeapPush(h, t[th]))
        /\ pushed' = pushed (+) SetToBag({t[th]})
        /\ pc' = [pc EXCEPT ![th] = "push_rel"]
        /\ UNCHANGED <<shape, cas_lock, i, t, iter, r, snap, conc,
                       popped, wiped, out, alive, calls>>

\* Queue::try_push: cas_lock.store(false), Ok(()); push returns, or
\* extend_ref goes on to its next element.
PushRelease(th) ==
    /\ pc[th] = "push_rel"
    /\ Release(th)
    /\ IF iter[th] = <<>>
       THEN /\ Returned(th)
            /\ UNCHANGED iter
       ELSE /\ \E j \in Sampled : i' = [i EXCEPT ![th] = j]
            /\ t' = [t EXCEPT ![th] = Head(iter[th])]
            /\ iter' = [iter EXCEPT ![th] = Tail(iter[th])]
            /\ pc' = [pc EXCEPT ![th] = "push"]
            /\ UNCHANGED <<unsync, prev_pq, r, snap, conc>>
    /\ UNCHANGED <<shape, story, pq, calls>>

\* ------------------------------------------------------------------- pop
\* MilkPQ::pop(): sample i, then try_pop.
CallPop(th) ==
    \E j \in Sampled :
        /\ Called(th, "pop", 1)
        /\ pc' = [pc EXCEPT ![th] = "pop"]
        /\ i' = [i EXCEPT ![th] = j]
        /\ UNCHANGED <<shape, pq, cas_lock, prev_pq, unsync, t, iter, r, snap,
                       pushed, popped, wiped, alive>>

\* Queue::try_pop, Ok arm of the CAS.
TryPopOk(th) == Acquire(th, "pop", "pop_cs")

\* Queue::try_pop, Err arm: pop samples another index.
TryPopErr(th) ==
    \E j \in Sampled :
        /\ pc[th] = "pop"
        /\ i' = [i EXCEPT ![th] = j]
        /\ UNCHANGED <<shape, story, pq, cas_lock, prev_pq, unsync, pc, t,
                       iter, r, snap, conc, calls>>

\* C17 mutant: pop takes from subqueue 0 whatever index it sampled and
\* whichever flag it holds.
PopHeapFirst(th) ==
    \E h \in View(th, 0) :
        /\ pc[th] \in {"pop_cs", "spop_cs"}
        /\ r' = [r EXCEPT ![th] = HeapPopItem(h)]
        /\ IF h = <<>>
           THEN UNCHANGED <<pq, prev_pq, unsync, popped>>
           ELSE /\ Write(th, 0, HeapPopRest(h))
                /\ popped' = popped (+) SetToBag({HeapPopItem(h)})
        /\ pc' = [pc EXCEPT ![th] = IF pc[th] = "pop_cs" THEN "pop_rel" ELSE "spop_rel"]
        /\ UNCHANGED <<shape, cas_lock, i, t, iter, snap, conc,
                       pushed, wiped, out, alive, calls>>

\* Queue::try_pop, inside the critical section: r = pq.pop().
PopHeap(th) ==
    \E h \in View(th, i[th]) :
        /\ pc[th] \in {"pop_cs", "spop_cs"}
        /\ r' = [r EXCEPT ![th] = HeapPopItem(h)]
        /\ IF h = <<>>
           THEN UNCHANGED <<pq, prev_pq, unsync, popped>>
           ELSE /\ Write(th, i[th], HeapPopRest(h))
                /\ popped' = popped (+) SetToBag({HeapPopItem(h)})
        /\ pc' = [pc EXCEPT ![th] = IF pc[th] = "pop_cs" THEN "pop_rel" ELSE "spop_rel"]
        /\ UNCHANGED <<shape, cas_lock, i, t, iter, snap, conc,
                       pushed, wiped, out, alive, calls>>

\* Queue::try_pop: cas_lock.store(false), Ok(r); pop returns t.unwrap().
PopRelease(th) ==
    /\ pc[th] = "pop_rel"
    /\ Release(th)
    /\ Returned(th)
    /\ UNCHANGED <<shape, story, pq, iter, calls>>

\* ------------------------------------------------------------ strong_pop
\* MilkPQ::strong_pop(): the subqueues in index order.
CallStrongPop(th) ==
    /\ Called(th, "spop", 1)
    /\ pc' = [pc EXCEPT ![th] = "spop"]
    /\ UNCHANGED <<shape, pq, cas_lock, prev_pq, unsync, i, t, iter, r, snap,
                   pushed, popped, wiped, alive>>

\* C18 mutant: strong_pop does not wait for a held flag but goes on to the
\* next subqueue.
TryStrongPopSkip(th) ==
    \/ Acquire(th, "spop", "spop_cs")
    \/ /\ pc[th] = "spop"
       /\ cas_lock[i[th]]
       /\ i[th] + 1 < limit
       /\ i' = [i EXCEPT ![th] = i[th] + 1]
       /\ UNCHANGED <<shape, story, pq, cas_lock, prev_pq, unsync, pc, t,
                      iter, r, snap, conc, calls>>

\* The spin `while {t = queue.try_pop(); t.is_err()}` ends with the Ok arm.
TryStrongPopOk(th) == Acquire(th, "spop", "spop_cs")

\* C5 mutant: strong_pop returns what the first subqueue gave, without going
\* on to the next one.
StrongPopReleaseFirst(th) ==
    /\ pc[th] = "spop_rel"
    /\ Release(th)
    /\ Returned(th)
    /\ UNCHANGED <<shape, story, pq, iter, calls>>

\* C16 mutant: a strong_pop that found every subqueue empty looks again
\* from subqueue 0 when something is resident after all.
StrongPopReleaseAgain(th) ==
    /\ pc[th] = "spop_rel"
    /\ Release(th)
    /\ IF r[th] # None \/ (i[th] + 1 >= limit /\ AllEmpty)
       THEN Returned(th)
       ELSE /\ i' = [i EXCEPT ![th] = IF i[th] + 1 >= limit THEN 0 ELSE i[th] + 1]
            /\ pc' = [pc EXCEPT ![th] = "spop"]
            /\ UNCHANGED <<unsync, prev_pq, t, r, snap, conc>>
    /\ UNCHANGED <<shape, story, pq, iter, calls>>

\* C21 mutant: strong_pop keeps the flag of the subqueue it found empty
\* while it goes on to the next one, and gives it back only on return.
StrongPopReleaseHold(th) ==
    /\ pc[th] = "spop_rel"
    /\ IF r[th] # None \/ i[th] + 1 >= limit
       THEN Release(th) /\ Returned(th)
       ELSE /\ i' = [i EXCEPT ![th] = i[th] + 1]
            /\ pc' = [pc EXCEPT ![th] = "spop"]
            /\ UNCHANGED <<cas_lock, unsync, prev_pq, t, r, snap, conc>>
    /\ UNCHANGED <<shape, story, pq, iter, calls>>

\* try_pop releases; strong_pop returns Some(r), goes on to the next
\* subqueue, or returns None after the last one.
StrongPopRelease(th) ==
    /\ pc[th] = "spop_rel"
    /\ Release(th)
    /\ IF r[th] # None \/ i[th] + 1 >= limit
       THEN Returned(th)
       ELSE /\ i' = [i EXCEPT ![th] = i[th] + 1]
            /\ pc' = [pc EXCEPT ![th] = "spop"]
            /\ UNCHANGED <<unsync, prev_pq, t, r, snap, conc>>
    /\ UNCHANGED <<shape, story, pq, iter, calls>>

\* ----------------------------------------------------------------- clear
\* MilkPQ::clear(): Queue::clear on every subqueue in index order.
CallClear(th) ==
    /\ Called(th, "clear", 1)
    /\ pc' = [pc EXCEPT ![th] = "clear"]
    /\ wiped' = TRUE
    /\ UNCHANGED <<shape, pq, cas_lock, prev_pq, unsync, i, t, iter, r, snap,
                   pushed, popped, alive>>

\* Queue::clear: the spin on the CAS ends with the flag held.
TryClearOk(th) == Acquire(th, "clear", "clear_cs")

\* C19 mutant: clear empties every heap at once while it holds the flag of
\* one subqueue.
ClearHeapAll(th) ==
    /\ pc[th] = "clear_cs"
    /\ pq' = [j \in Shards |-> <<>>]
    /\ pc' = [pc EXCEPT ![th] = "clear_rel"]
    /\ UNCHANGED <<shape, story, cas_lock, prev_pq, unsync, i, t, iter, r,
                   snap, conc, calls>>

\* Queue::clear, inside the critical section: pq.clear().
ClearHeap(th) ==
    /\ pc[th] = "clear_cs"
    /\ Write(th, i[th], <<>>)
    /\ pc' = [pc EXCEPT ![th] = "clear_rel"]
    /\ UNCHANGED <<shape, story, cas_lock, i, t, iter, r, snap, conc, calls>>

\* C22 mutant: Queue::clear returns without its store(false).
ClearReleaseKept(th) ==
    /\ pc[th] = "clear_rel"
    /\ IF i[th] + 1 >= limit
       THEN Returned(th)
       ELSE /\ i' = [i EXCEPT ![th] = i[th] + 1]
            /\ pc' = [pc EXCEPT ![th] = "clear"]
            /\ UNCHANGED <<unsync, prev_pq, t, r, snap, conc>>
    /\ UNCHANGED <<shape, story, pq, cas_lock, iter, calls>>

\* Queue::clear releases; MilkPQ::clear goes on or returns.
ClearRelease(th) ==
    /\ pc[th] = "clear_rel"
    /\ Release(th)
    /\ IF i[th] + 1 >= limit
       THEN Returned(th)
       ELSE /\ i' = [i EXCEPT ![th] = i[th] + 1]
            /\ pc' = [pc EXCEPT ![th] = "clear"]
            /\ UNCHANGED <<unsync, prev_pq, t, r, snap, conc>>
    /\ UNCHANGED <<shape, story, pq, iter, calls>>

\* ----------------------------------------------------------- clone, fmt
\* Clone for MilkPQ (self.queues.clone()) and Debug for MilkPQ
\* (debug_list().entries(queues)): Queue::clone / Queue::fmt on every
\* subqueue in index order.  The two differ only in what they do with the
\* heap they read (snap: the copies, or the entries written).
CallClone(th) ==
    /\ Called(th, "read", 1)
    /\ pc' = [pc EXCEPT ![th] = "read"]
    /\ UNCHANGED <<shape, pq, cas_lock, prev_pq, unsync, i, t, iter, r, snap,
                   pushed, popped, wiped, alive>>

\* Queue::clone / Queue::fmt: the spin on the CAS ends with the flag held.
TryReadOk(th) == Acquire(th, "read", "read_cs")

\* C20 mutant: the flag is copied with the heap, as a derived Clone would
\* do: it is held at that moment, by the thread that clones.
CloneHeld(h) == [pq |-> h, cas_lock |-> TRUE]

\* Queue::clone: Queue { pq, cas_lock } with pq the heap's clone and
\* cas_lock a new AtomicBool::new(false).
CloneOf(h) == [pq |-> h, cas_lock |-> FALSE]

\* Queue::clone / Queue::fmt, inside the critical section: the heap is
\* cloned, or formatted (of fmt's entry only the heap matters).
ReadHeap(th) ==
    \E h \in View(th, i[th]) :
        /\ pc[th] = "read_cs"
        /\ snap' = [snap EXCEPT ![th] = Append(snap[th], CloneOf(h))]
        /\ pc' = [pc EXCEPT ![th] = "read_rel"]
        /\ UNCHANGED <<shape, story, pq, cas_lock, prev_pq, unsync, i, t,
                       iter, r, conc, calls>>

\* Queue::clone / Queue::fmt releases; the caller goes on or returns snap.
ReadRelease(th) ==
    /\ pc[th] = "read_rel"
    /\ Release(th)
    /\ IF i[th] + 1 >= limit
       THEN Returned(th)
       ELSE /\ i' = [i EXCEPT ![th] = i[th] + 1]
            /\ pc' = [pc EXCEPT ![th] = "read"]
            /\ UNCHANGED <<unsync, prev_pq, t, r, snap, conc>>
    /\ UNCHANGED <<shape, story, pq, iter, calls>>

\* ------------------------------------------- calls through &mut self, self
\* A caller of a &mut self or self method holds the only reference: no other
\* call is in progress, and every earlier call is ordered before this one.
Exclusive == alive /\ \A th \in Threads : pc[th] = "idle"

\* C9 mutant: take returns the new empty heap instead of the old one.
take_new(j) == <<>>

\* Queue::take(): the heap is swapped for an empty one; cas_lock is not used.
take(j) == pq[j]

\* MilkPQ::drain(): vec.extend(queue.take()) for every subqueue.
Drain ==
    /\ Exclusive
    /\ calls + 1 <= MaxCalls
    /\ calls' = calls + 1
    /\ out' = Concat([j \in Shards |-> take(j)], 0)
    /\ pq' = [j \in Shards |-> <<>>]
    /\ prev_pq' = [j \in Shards |-> <<>>]
    /\ wiped' = TRUE
    /\ UNCHANGED <<shape, cas_lock, unsync, pc, i, t, iter, r, snap, conc,
                   pushed, popped, alive>>

\* C8 mutant: the sort without .reverse(), ascending.
RECURSIVE insert_fwd(_, _)
insert_fwd(x, s) ==
    IF s = <<>> THEN <<x>>
    ELSE IF x <= Head(s) THEN <<x>> \o s
    ELSE <<Head(s)>> \o insert_fwd(x, Tail(s))

\* vec.sort_unstable_by(|l, r| l.cmp(r).reverse()): an insertion sort under
\* the reversed order.
RECURSIVE insert_rev(_, _)
insert_rev(x, s) ==
    IF s = <<>> THEN <<x>>
    ELSE IF x >= Head(s) THEN <<x>> \o s
    ELSE <<Head(s)>> \o insert_rev(x, Tail(s))

RECURSIVE sort_rev(_)
sort_rev(s) == IF s = <<>> THEN <<>> ELSE insert_rev(Head(s), sort_rev(Tail(s)))

\* MilkPQ::into_sorted_vec(self): Vec::from(self), sorted descending.  The
\* queue is consumed.
IntoSortedVec ==
    /\ Exclusive
    /\ out' = sort_rev(Concat(pq, 0))
    /\ pq' = [j \in Shards |-> <<>>]
    /\ prev_pq' = [j \in Shards |-> <<>>]
    /\ alive' = FALSE
    /\ UNCHANGED <<shape, cas_lock, unsync, pc, i, t, iter, r, snap, conc,
                   pushed, popped, wiped, calls>>

\* Extend::extend(&mut self, iter), which is extend_ref run by the only
\* holder of the queue.
Extend ==
    \E s \in Seqs(MaxLen) \ {<<>>} :
        \E f \in [1..Len(s) -> Shards] :
            /\ Exclusive
            /\ calls + Len(s) <= MaxCalls
            /\ calls' = calls + Len(s)
            /\ pq' = push_all(pq, s, f, 1)
            /\ prev_pq' = pq'
            /\ pushed' = pushed (+) BagOfSeq(s)
            /\ out' = <<>>
            /\ UNCHANGED <<shape, cas_lock, unsync, pc, i, t, iter, r, snap,
                           conc, popped, wiped, alive>>

\* ------------------------------------------------------------------ Next
Next ==
    \/ \E th \in Threads :
        \/ CallPush(th)
        \/ CallExtendRef(th)
        \/ TryPushOk(th)
        \/ TryPushErr(th)
        \/ PushHeap(th)
        \/ PushRelease(th)
        \/ CallPop(th)
        \/ TryPopOk(th)
        \/ TryPopErr(th)
        \/ PopHeap(th)
        \/ PopRelease(th)
        \/ CallStrongPop(th)
        \/ TryStrongPopOk(th)
        \/ StrongPopRelease(th)
        \/ CallClear(th)
        \/ TryClearOk(th)
        \/ ClearHeap(th)
        \/ ClearRelease(th)
        \/ CallClone(th)
        \/ TryReadOk(th)
        \/ ReadHeap(th)
        \/ ReadRelease(th)
    \/ Drain
    \/ IntoSortedVec
    \/ Extend

Spec == Init /\ [][Next]_vars

\* The behaviours in which every critical section reads the heap as last
\* written: those the code would have if the CAS had Acquire ordering.  Used
\* only to tell what a failure owes to the missing ordering.
Ordered ==
    \A th \in Threads :
        /\ (pc[th] = "push_cs" /\ pc'[th] = "push_rel")
              => pq'[i[th]] = HeapPush(pq[i[th]], t[th])
        /\ (pc[th] \in {"pop_cs", "spop_cs"} /\ pc'[th] # pc[th])
              => /\ r'[th] = HeapPopItem(pq[i[th]])
                 /\ pq'[i[th]] = HeapPopRest(pq[i[th]])
        /\ (pc[th] = "read_cs" /\ pc'[th] = "read_rel")
              => snap'[th] = Append(snap[th], CloneOf(pq[i[th]]))

SpecOrdered == Init /\ [][Next /\ Ordered]_vars

\* ================================================================ claims

\* C1: element conservation.  As long as neither clear nor drain was called
\* and the queue was not consumed, the elements inserted by pushes are
\* exactly the elements taken out by pop / strong_pop together with the
\* elements resident in the subqueues (as multisets).
C1_Conservation ==
    (alive /\ ~wiped) => pushed = popped (+) Resident

\* Thread th holds subqueue j's flag: it is between its successful CAS and
\* its store(false).
InCS(th) == pc[th] \in {"push_cs", "push_rel", "pop_cs", "pop_rel", "spop_cs",
                        "spop_rel", "clear_cs", "clear_rel", "read_cs", "read_rel"}
Holder(th, j) == InCS(th) /\ i[th] = j

\* Thread th accesses the heap of its subqueue in this step.
HeapStep(th) == pc[th] \in {"push_cs", "pop_cs", "spop_cs", "clear_cs", "read_cs"}
                /\ pc'[th] # pc[th]

\* C2: mutual exclusion per subqueue.  At most one thread is inside a
\* subqueue's critical section, the flag is held while one is, and every
\* step of a shared-access method that reads or changes a heap is taken by
\* the thread that holds that subqueue's flag.
C2_MutualExclusion ==
    /\ [](\A j \in Shards :
            /\ Cardinality({th \in Threads : Holder(th, j)}) <= 1
            /\ (\E th \in Threads : Holder(th, j)) => cas_lock[j])
    /\ [][/\ \A th \in Threads :
               HeapStep(th) => /\ cas_lock[i[th]]
                               /\ \A u \in Threads \ {th} : ~Holder(u, i[th])
          /\ \A j \in Shards :
               (pq'[j] # pq[j] /\ \E th \in Threads : Active(th))
                   => \E th \in Threads : Holder(th, j) /\ HeapStep(th)]_vars

\* C2 witness: one thread is inside a subqueue's critical section while
\* another is trying to acquire the same subqueue.
C2_Witness ==
    \E th \in Threads, u \in Threads :
        /\ th # u
        /\ pc[th] = "push_cs"
        /\ pc[u] \in {"pop", "push", "spop", "clear", "read"}
        /\ i[u] = i[th]

\* Thread th's strong_pop returns in this step.
StrongPopReturns(th) == pc[th] = "spop_rel" /\ pc'[th] = "idle"

\* C3: strong_pop under quiescence.  A strong_pop with which no push was
\* concurrent returns None only if every subqueue is empty when it returns.
C3_StrongPopQuiescent ==
    [][\A th \in Threads :
         (StrongPopReturns(th) /\ r[th] = None /\ "push" \notin conc[th])
             => AllEmpty']_vars

\* C4: strong_pop returns None iff the structure is truly empty, whatever
\* runs concurrently: when it returns None no element is resident, and the
\* element it takes is taken from a queue that is not empty.
C4_StrongPopNoneIffEmpty ==
    [][\A th \in Threads :
         /\ (StrongPopReturns(th) /\ r[th] = None) => AllEmpty'
         /\ (pc[th] = "spop_cs" /\ pc'[th] = "spop_rel" /\ r'[th] # None)
                => ~AllEmpty]_vars

\* The greatest element of a non-empty sequence.
RECURSIVE SeqMax(_)
SeqMax(s) == IF Len(s) = 1 THEN s[1]
             ELSE IF s[1] >= SeqMax(Tail(s)) THEN s[1] ELSE SeqMax(Tail(s))

\* Thread th's try_pop runs pq.pop() in this step, for pop or strong_pop.
PopStep(th, cs, rel) == pc[th] = cs /\ pc'[th] = rel

\* No other call has been in progress at any time during th's call.
Quiescent(th) == conc[th] = {} /\ \A u \in Threads \ {th} : ~Active(u)

\* C5: repeated strong_pop drains a quiescent queue.  While no other call is
\* in progress, strong_pop visits only empty subqueues until it finds an
\* element; the element it returns is resident and is the only thing that
\* leaves the queue; and it returns None only from a queue with nothing
\* resident.  So k resident elements give k calls returning Some, which
\* together return the resident multiset, and then a call returning None.
C5_StrongPopDrains ==
    [][\A th \in Threads :
         /\ (PopStep(th, "spop_cs", "spop_rel") /\ Quiescent(th)) =>
               /\ \A j \in Shards : j < i[th] => pq[j] = <<>>
               /\ r'[th] = None <=> pq[i[th]] = <<>>
               /\ r'[th] = None => Resident' = Resident
               /\ r'[th] # None => Resident' (+) SetToBag({r'[th]}) = Resident
         /\ (StrongPopReturns(th) /\ Quiescent(th)) =>
               /\ r[th] = None => Resident = EmptyBag
               /\ Resident' = Resident]_vars

\* C5 witness: a queue built from two elements over two subqueues has been
\* drained by strong_pop calls, and a further strong_pop, with nothing else
\* in progress, has found every subqueue empty and is about to return None.
C5_Witness ==
    \E th \in Threads :
        /\ limit = 2
        /\ pc[th] = "spop_rel" /\ i[th] = 1 /\ r[th] = None
        /\ Quiescent(th)
        /\ BagCardinality(popped) = 2 /\ popped = pushed /\ ~wiped

\* C6: relaxed pop.  pop returns None iff the subqueue it acquired was empty
\* when it was locked; otherwise it returns that subqueue's greatest element
\* and removes exactly that element; no other subqueue changes.
C6_PopResult ==
    [][\A th \in Threads :
         PopStep(th, "pop_cs", "pop_rel") =>
            /\ r'[th] = None <=> pq[i[th]] = <<>>
            /\ r'[th] = None => pq' = pq
            /\ r'[th] # None =>
                  /\ r'[th] = SeqMax(pq[i[th]])
                  /\ BagOfSeq(pq'[i[th]]) (+) SetToBag({r'[th]}) = BagOfSeq(pq[i[th]])
                  /\ \A j \in Shards \ {i[th]} : pq'[j] = pq[j]]_vars

\* C7: with one subqueue and one thread the queue is a strict max-heap:
\* every pop returns the greatest resident element and removes exactly it,
\* and returns None only when nothing is resident.
C7_SingleShardMaxHeap ==
    [][\A th \in Threads :
         (PopStep(th, "pop_cs", "pop_rel") /\ limit = 1 /\ nthreads = 1) =>
            IF Resident = EmptyBag
            THEN r'[th] = None /\ Resident' = EmptyBag
            ELSE /\ r'[th] = SeqMax(pq[0])
                 /\ Resident' (+) SetToBag({r'[th]}) = Resident]_vars

\* C7 witness: one subqueue, one thread, three elements resident of which
\* the greatest was not pushed last, and a pop has just taken the greatest.
C7_Witness ==
    /\ limit = 1 /\ nthreads = 1
    /\ pc[1] = "pop_rel" /\ r[1] = 2
    /\ Len(pq[0]) = 2 /\ 1 \in {pq[0][k] : k \in 1..2}
    /\ ~wiped

\* A sequence in descending order.
Descending(s) == \A k \in 1..(Len(s) - 1) : s[k] >= s[k + 1]

\* C8: into_sorted_vec after bulk insertion.  When one thread has only
\* inserted (from_iter, push, extend_ref, extend) and the queue is then
\* consumed by into_sorted_vec, the result is the multiset of the inserted
\* elements in descending order.
C8_IntoSortedVec ==
    (~alive /\ nthreads = 1 /\ ~wiped /\ popped = EmptyBag)
        => Descending(out) /\ BagOfSeq(out) = pushed

\* C8 witness: into_sorted_vec has returned three elements, not all equal,
\* that were spread over two subqueues.
C8_Witness ==
    /\ ~alive /\ nthreads = 1 /\ ~wiped /\ popped = EmptyBag
    /\ limit = 2 /\ Len(out) = 3 /\ out[1] # out[3]

\* C9: drain.  What drain returns is, as a multiset, everything that was
\* resident; afterwards every subqueue is empty; the number of subqueues
\* and every lock flag are unchanged.
C9_Drain ==
    [][Drain => /\ BagOfSeq(out') = Resident
                /\ \A j \in Shards : pq'[j] = <<>>
                /\ limit' = limit
                /\ cas_lock' = cas_lock]_vars

\* C9 witness: drain has returned two elements from two subqueues.
C9_Witness ==
    /\ alive /\ wiped /\ limit = 2
    /\ Len(out) = 2
    /\ AllEmpty
    /\ \A th \in Threads : pc[th] = "idle"

\* Thread th's clear returns in this step.
ClearReturns(th) == pc[th] = "clear_rel" /\ pc'[th] = "idle"

\* C10: clear then strong_pop.  When no push is concurrent with a clear,
\* every subqueue is empty when the clear returns (so that a strong_pop
\* that follows finds nothing and returns None).
C10_ClearThenStrongPop ==
    [][\A th \in Threads :
         (ClearReturns(th) /\ "push" \notin conc[th]) => AllEmpty']_vars

\* Thread th's try_push runs pq.push(t) in this step.
PushStep(th) == pc[th] = "push_cs" /\ pc'[th] = "push_rel"

\* Thread th's try_push attempt on its flag takes place in this step: the
\* CAS succeeds, or fails and push samples again.
PushAttempt(th) == pc[th] = "push" /\ (pc'[th] = "push_cs" \/ i'[th] # i[th])

\* The number of copies of v in the heap h.
Copies(h, v) == Cardinality({k \in 1..Len(h) : h[k] = v})

\* Every value occurs in heap h at most as often as in g or in q, or once
\* more often where `extra` holds it.
Within(h, g, q, extra) ==
    \A v \in Val :
        Copies(h, v) <= (IF Copies(g, v) >= Copies(q, v) THEN Copies(g, v) ELSE Copies(q, v))
                        + (IF v \in extra THEN 1 ELSE 0)

\* C11: exactly-one-shard placement.  A push inserts in one step, into the
\* one subqueue whose flag it holds: that heap becomes a heap the subqueue
\* held plus exactly one copy of the element, and no other subqueue changes.
\* An attempt on the flag, failed or not, changes no heap and keeps the
\* element, and after the insertion the push goes on to its return.  What
\* is resident in a subqueue was resident in that subqueue before or is
\* pushed there in that very step (nothing migrates), and nothing is ever
\* resident more often than it was pushed.
C11_ExactlyOneShard ==
    /\ [](Resident \sqsubseteq pushed)
    /\ [][/\ \A th \in Threads :
               /\ PushStep(th) =>
                    /\ \E h \in {pq[i[th]], prev_pq[i[th]]} :
                          BagOfSeq(pq'[i[th]]) = BagOfSeq(h) (+) SetToBag({t[th]})
                    /\ \A j \in Shards \ {i[th]} : pq'[j] = pq[j]
               /\ PushAttempt(th) => pq' = pq /\ t'[th] = t[th]
               /\ pc'[th] = "push_cs" => pc[th] \in {"push", "push_cs"}
               /\ (pc[th] = "push_rel" /\ pc'[th] # pc[th]) =>
                    /\ pq' = pq
                    /\ pc'[th] = IF iter[th] = <<>> THEN "idle" ELSE "push"
          /\ \A j \in Shards :
               \/ Within(pq'[j], pq[j], prev_pq[j],
                         {t[th] : th \in {u \in Threads : PushStep(u) /\ i[u] = j}})
               \/ Exclusive /\ pushed' # pushed]_vars

\* C11 witness: two pushes are under way on a queue of two subqueues, one
\* holds the flag of subqueue 0, and the other has inserted its element
\* into subqueue 1 beside an element that was already there.
C11_Witness ==
    \E th \in Threads, u \in Threads :
        /\ limit = 2 /\ th # u
        /\ pc[th] = "push_rel" /\ i[th] = 1
        /\ Len(pq[1]) = 2 /\ t[th] \in {pq[1][k] : k \in 1..2}
        /\ pc[u] = "push_cs" /\ i[u] = 0

\* C12: lock at rest.  A flag is held only while some call is between its
\* successful CAS on that flag and its store(false): every call that took
\* a flag has given it back when it returns, and whenever no call is in
\* progress (the constructed queue included) every flag is free.
C12_LockAtRest ==
    /\ \A j \in Shards : cas_lock[j] => \E th \in Threads : Holder(th, j)
    /\ (\A th \in Threads : pc[th] = "idle") => \A j \in Shards : ~cas_lock[j]

\* C12 witness: two threads have made calls that took flags (a pop that
\* returned an element, a clear, a push), and all of them have returned.
C12_Witness ==
    /\ nthreads = 2 /\ limit = 2
    /\ \A th \in Threads : pc[th] = "idle"
    /\ calls = MaxCalls /\ wiped /\ out = <<>>
    /\ popped # EmptyBag /\ BagCardinality(pushed) = MaxLen + 1

\* The steps thread th takes between a successful CAS and its return or its
\* next attempt: none of them waits for another thread.
Proceed(th) ==
    /\ th \in Threads
    /\ \/ PushHeap(th) \/ PushRelease(th)
       \/ PopHeap(th) \/ PopRelease(th) \/ StrongPopRelease(th)
       \/ ClearHeap(th) \/ ClearRelease(th)
       \/ ReadHeap(th) \/ ReadRelease(th)

\* The scheduling the progress claims are stated under: every thread that
\* holds a flag goes on running (operating-system threads, no suspension
\* inside a critical section that lasts for ever), and the CAS of a push
\* that finds its flag free again and again succeeds in the end.
SpecFair ==
    /\ Spec
    /\ \A th \in 1..MaxThreads : WF_vars(Proceed(th))
    /\ \A th \in 1..MaxThreads : SF_vars(th \in Threads /\ TryPushOk(th))

AtCAS(th, at) == pc[th] = at /\ (pc'[th] # pc[th] \/ i'[th] # i[th])

\* What the single attempt of try_push / try_pop does on a held flag: it
\* gives up at once (Err) and leaves heaps, flags and the element alone.
ErrOnHeld(th, at) ==
    (AtCAS(th, at) /\ cas_lock[i[th]]) =>
        /\ pc'[th] = at
        /\ pq' = pq /\ cas_lock' = cas_lock /\ t'[th] = t[th]

\* What follows a successful attempt of try_push on a subqueue that no
\* other thread touches: the heap grows by t, then the flag is released.
PushOkArm(th) ==
    /\ (PushStep(th) /\ Quiescent(th)) =>
          /\ pq'[i[th]] = HeapPush(pq[i[th]], t[th])
          /\ Len(pq'[i[th]]) = Len(pq[i[th]]) + 1
          /\ cas_lock'[i[th]]
    /\ (pc[th] = "push_rel" /\ pc'[th] # pc[th]) => ~cas_lock'[i[th]]

\* C14: try_push makes a single acquisition attempt.  On a subqueue whose
\* flag is free and which no other thread touches, it succeeds: it takes
\* the flag, inserts t (the heap grows by one), releases the flag and
\* returns Ok.  On a held flag it returns Err with the same t and leaves
\* heap and flag unchanged.
C14_TryPush ==
    [][\A th \in Threads :
         /\ (AtCAS(th, "push") /\ ~cas_lock[i[th]] /\ Quiescent(th))
               => pc'[th] = "push_cs" /\ cas_lock'[i[th]]
         /\ PushOkArm(th)
         /\ ErrOnHeld(th, "push")]_vars

\* The rest of C14 without the success of the attempt on a free flag.
C14_Rest == [][\A th \in Threads : PushOkArm(th) /\ ErrOnHeld(th, "push")]_vars

\* What follows a successful attempt of try_pop on a subqueue that no other
\* thread touches: the greatest element, and exactly it, leaves the heap,
\* or the empty heap stays as it is; then the flag is released.
PopOkArm(th, cs, rel) ==
    /\ (PopStep(th, cs, rel) /\ Quiescent(th)) =>
          /\ cas_lock'[i[th]]
          /\ IF pq[i[th]] = <<>>
             THEN r'[th] = None /\ pq' = pq
             ELSE /\ r'[th] = SeqMax(pq[i[th]])
                  /\ BagOfSeq(pq'[i[th]]) (+) SetToBag({r'[th]}) = BagOfSeq(pq[i[th]])
    /\ (pc[th] = rel /\ pc'[th] # pc[th]) => ~cas_lock'[i[th]]

\* C15: try_pop makes a single acquisition attempt.  On a subqueue whose
\* flag is free and which no other thread touches, it succeeds: it returns
\* Ok(Some(max)) removing exactly the maximum, or Ok(None) leaving the
\* empty heap unchanged, and releases the flag.  On a held flag it returns
\* Err(()) and leaves heap and flag unchanged.
C15_TryPop ==
    [][\A th \in Threads :
         /\ (AtCAS(th, "pop") /\ ~cas_lock[i[th]] /\ Quiescent(th))
               => pc'[th] = "pop_cs" /\ cas_lock'[i[th]]
         /\ PopOkArm(th, "pop_cs", "pop_rel")
         /\ PopOkArm(th, "spop_cs", "spop_rel")
         /\ ErrOnHeld(th, "pop")]_vars

\* The rest of C15 without the success of the attempt on a free flag.
C15_Rest ==
    [][\A th \in Threads :
         /\ PopOkArm(th, "pop_cs", "pop_rel")
         /\ PopOkArm(th, "spop_cs", "spop_rel")
         /\ ErrOnHeld(th, "pop")]_vars

\* C16: strong_pop is not linearizable against concurrent pushes.  A
\* strong_pop never goes back to a subqueue it has released, each of its
\* heap steps touches only the subqueue whose flag it holds, and it returns
\* None from the last subqueue without looking at the others again: so an
\* element that a push inserts into a subqueue already visited is missed,
\* and stays resident while strong_pop returns None (C16_Witness).
C16_StrongPopMissesPush ==
    [][\A th \in Threads :
         /\ (Kind(th) = "spop" /\ pc'[th] # "idle")
               => i'[th] = i[th] \/ (i'[th] = i[th] + 1 /\ pc[th] = "spop_rel")
         /\ PopStep(th, "spop_cs", "spop_rel")
               => \A j \in Shards \ {i[th]} : pq'[j] = pq[j]
         /\ (StrongPopReturns(th) /\ r[th] = None)
               => pq' = pq /\ i[th] = limit - 1]_vars

\* C16 witness: the queue was built empty with two subqueues; a strong_pop
\* found subqueue 0 empty; the only push made since, concurrent with it,
\* inserted its element into subqueue 0 and has returned; strong_pop found
\* subqueue 1 empty and is about to return None with that element resident.
C16_Witness ==
    \E th \in Threads, u \in Threads :
        /\ limit = 2 /\ th # u
        /\ pc[th] = "spop_rel" /\ i[th] = 1 /\ r[th] = None
        /\ conc[th] = {"push"} /\ pc[u] = "idle"
        /\ Len(pq[0]) = 1 /\ pushed = BagOfSeq(pq[0])
        /\ popped = EmptyBag /\ ~wiped /\ calls = 2

\* C17: spurious None of pop.  What a pop returns is decided by the one
\* subqueue it sampled and locked, whatever the others hold: with no other
\* call in progress it returns None iff that subqueue is empty, and else
\* that subqueue's greatest element, and it changes no other subqueue.  So
\* with two subqueues or more a pop can return None while another
\* subqueue is not empty, and an element that is not the greatest resident
\* (C17_Witness).
C17_PopOneShard ==
    [][\A th \in Threads :
         (PopStep(th, "pop_cs", "pop_rel") /\ Quiescent(th)) =>
            /\ r'[th] = None <=> pq[i[th]] = <<>>
            /\ r'[th] # None => r'[th] = SeqMax(pq[i[th]])
            /\ \A j \in Shards \ {i[th]} : pq'[j] = pq[j]]_vars

\* C17 witness: one thread, two subqueues, built holding 1 and 2.  Two
\* calls were made: a pop that returned 1 while 2 was resident in the other
\* subqueue, and a pop that now has None from the subqueue it sampled
\* while 2 is still resident in the other.
C17_Witness ==
    /\ nthreads = 1 /\ limit = 2 /\ calls = 2 /\ ~wiped
    /\ pushed = BagOfSeq(<<1, 2>>) /\ popped = SetToBag({1})
    /\ pc[1] = "pop_rel" /\ r[1] = None /\ i[1] = 1
    /\ pq[1] = <<>> /\ pq[0] = <<2>>

\* C18: strong_pop's visiting order.  strong_pop starts at subqueue 0 and
\* moves to the next index only after it has held the flag of the current
\* one and found its heap empty (it waits, it never skips).  It returns the
\* greatest element of the first heap it finds non-empty, at once, and it
\* returns None only from the last subqueue, having locked all of them and
\* found each empty.  With no other call in progress, every subqueue below
\* the one it takes from is empty and the result is the maximum of the
\* lowest non-empty subqueue.
C18_StrongPopOrder ==
    [][\A th \in Threads :
         /\ (pc[th] = "idle" /\ pc'[th] = "spop") => i'[th] = 0
         /\ (Kind(th) = "spop" /\ pc'[th] # "idle" /\ i'[th] # i[th])
               => /\ pc[th] = "spop_rel" /\ r[th] = None
                  /\ i'[th] = i[th] + 1 /\ pc'[th] = "spop"
         /\ (pc[th] = "spop" /\ pc'[th] # pc[th])
               => pc'[th] = "spop_cs" /\ ~cas_lock[i[th]] /\ cas_lock'[i[th]]
         /\ PopStep(th, "spop_cs", "spop_rel")
               => /\ \E h \in {pq[i[th]], prev_pq[i[th]]} :
                        r'[th] = IF h = <<>> THEN None ELSE SeqMax(h)
                  /\ Quiescent(th) =>
                        /\ \A j \in Shards : j < i[th] => pq[j] = <<>>
                        /\ r'[th] = IF pq[i[th]] = <<>> THEN None ELSE SeqMax(pq[i[th]])
         /\ (pc[th] = "spop_rel" /\ pc'[th] # pc[th])
               => /\ r[th] # None => pc'[th] = "idle"
                  /\ (r[th] = None /\ pc'[th] = "idle") => i[th] = limit - 1]_vars

\* C18 witness: with nothing else in progress, strong_pop has taken 1 from
\* subqueue 0, the lowest non-empty one, while 2 is resident in subqueue 1.
C18_Witness ==
    \E th \in Threads :
        /\ limit = 2 /\ Quiescent(th) /\ ~wiped
        /\ pc[th] = "spop_rel" /\ i[th] = 0 /\ r[th] = 1
        /\ pq[1] = <<2>>

\* C19: clear is not atomic across subqueues.  clear empties the subqueues
\* one at a time in index order, each under its own flag only; a step that
\* empties one leaves the others as they are, clear never goes back to one
\* it has released, and it returns from the last without looking again: so
\* an element a concurrent push inserts into a subqueue already emptied is
\* resident when clear returns (C19_Witness).
C19_ClearShardByShard ==
    [][\A th \in Threads :
         /\ (pc[th] = "idle" /\ pc'[th] = "clear") => i'[th] = 0
         /\ (Kind(th) = "clear" /\ pc'[th] # "idle" /\ i'[th] # i[th])
               => pc[th] = "clear_rel" /\ i'[th] = i[th] + 1
         /\ (pc[th] = "clear_cs" /\ pc'[th] # pc[th])
               => /\ cas_lock[i[th]]
                  /\ pq'[i[th]] = <<>>
                  /\ \A j \in Shards \ {i[th]} : pq'[j] = pq[j]
         /\ ClearReturns(th) => i[th] = limit - 1 /\ pq' = pq]_vars

\* C19 witness: a queue of two subqueues built holding one element; only a
\* clear and one push were called, concurrently; the push has returned and
\* its element is resident in subqueue 0, which clear emptied before, and
\* clear, having emptied subqueue 1, is about to return.
C19_Witness ==
    \E th \in Threads, u \in Threads :
        /\ limit = 2 /\ th # u /\ calls = 2
        /\ pc[th] = "clear_rel" /\ i[th] = 1
        /\ conc[th] = {"push"} /\ pc[u] = "idle"
        /\ BagCardinality(pushed) = 2 /\ popped = EmptyBag
        /\ Len(pq[0]) = 1 /\ pq[1] = <<>>

\* Thread th's clone returns in this step.
CloneReturns(th) == pc[th] = "read_rel" /\ pc'[th] = "idle"

\* C20: clone is a deep copy taken subqueue by subqueue under each flag.
\* The step that copies subqueue i is taken with its flag held and leaves
\* every source heap as it is; the copy is the heap as it is at that step
\* or, when another thread wrote it during this clone call, as it was just
\* before that write: the contents at one instant of the call.  The copy
\* has a free flag of its own, the source's flag is released afterwards,
\* and the copies made are changed by nothing but the clone call itself.
\* With no other call in progress the clone returned has as many
\* subqueues as the source, each equal to the source's.
C20_Clone ==
    [][\A th \in Threads :
         /\ (pc[th] = "read_cs" /\ pc'[th] = "read_rel") =>
               /\ cas_lock[i[th]] /\ cas_lock' = cas_lock /\ pq' = pq
               /\ Len(snap'[th]) = i[th] + 1
               /\ SubSeq(snap'[th], 1, i[th]) = snap[th]
               /\ LET c == snap'[th][i[th] + 1]
                  IN  /\ c.cas_lock = FALSE
                      /\ c.pq \in {pq[i[th]], prev_pq[i[th]]}
                      /\ c.pq # pq[i[th]] => i[th] \in unsync[th]
                      /\ Quiescent(th) => c.pq = pq[i[th]]
         /\ (pc[th] = "read_rel" /\ pc'[th] # pc[th])
               => ~cas_lock'[i[th]] /\ pq' = pq
         /\ snap'[th] # snap[th]
               => pc[th] = "read_cs" \/ CloneReturns(th)
         /\ (CloneReturns(th) /\ Quiescent(th)) =>
               /\ Len(snap[th]) = limit
               /\ \A j \in Shards :
                     snap[th][j + 1] = [pq |-> pq[j], cas_lock |-> FALSE]]_vars

\* C20 witness: a clone of a queue of two subqueues has copied subqueue 0,
\* which was not empty; a concurrent push has since inserted into
\* subqueue 0 and returned; the clone has copied subqueue 1 and is about to
\* return with its copy of subqueue 0 as it was taken, one element short
\* of the source.
C20_Witness ==
    \E th \in Threads, u \in Threads :
        /\ limit = 2 /\ th # u
        /\ pc[th] = "read_rel" /\ i[th] = 1 /\ Len(snap[th]) = 2
        /\ conc[th] = {"push"} /\ pc[u] = "idle"
        /\ snap[th][1].pq # <<>> /\ ~snap[th][1].cas_lock
        /\ Len(pq[0]) = Len(snap[th][1].pq) + 1
        /\ snap[th][2].pq = pq[1]

\* Thread th is at a CAS: it is trying to take the flag of subqueue i[th].
Waiting(th) == pc[th] \in {"push", "pop", "spop", "clear", "read"}

\* C21: single-lock holding.  As many flags are held as there are threads
\* inside a critical section, each of these holding the flag of the one
\* subqueue it works on: so a thread holds at most one flag, and a thread
\* that is trying to take a flag holds none.  strong_pop, clear and clone
\* have released subqueue i when they turn to subqueue i + 1.
C21_SingleLock ==
    /\ [](/\ Cardinality({j \in Shards : cas_lock[j]})
               = Cardinality({th \in Threads : InCS(th)})
          /\ \A th \in Threads : InCS(th) => cas_lock[i[th]]
          /\ \A th \in Threads :
               Waiting(th) => \A j \in Shards :
                   cas_lock[j] => \E u \in Threads \ {th} : Holder(u, j))
    /\ [][\A th \in Threads :
            (Active(th) /\ pc'[th] # "idle" /\ i'[th] # i[th])
                => /\ pc'[th] \in {"push", "pop", "spop", "clear", "read"}
                   /\ cas_lock'[i[th]] =>
                         \E u \in Threads \ {th} :
                             i'[u] = i[th] /\ pc'[u] = pc[u] /\ InCS(u)]_vars

\* C21 witness: a clear that has released subqueue 0 holds the flag of
\* subqueue 1 while another thread holds the flag of subqueue 0.
C21_Witness ==
    \E th \in Threads, u \in Threads :
        /\ limit = 2 /\ th # u
        /\ pc[th] = "clear_cs" /\ i[th] = 1
        /\ InCS(u) /\ i[u] = 0
        /\ cas_lock[0] /\ cas_lock[1]

\* The successful CAS of thread th, in whichever method it is.
TryOk(th) ==
    /\ th \in Threads
    /\ \/ TryPushOk(th) \/ TryPopOk(th) \/ TryStrongPopOk(th)
       \/ TryClearOk(th) \/ TryReadOk(th)

\* The scheduling termination is stated under: every thread goes on
\* running, and a CAS that finds its flag free again and again succeeds in
\* the end.  The calls are finitely many (MaxCalls).
SpecTerm ==
    /\ Spec
    /\ \A th \in 1..MaxThreads : WF_vars(Proceed(th))
    /\ \A th \in 1..MaxThreads : SF_vars(TryOk(th))

\* C22: termination.  Whenever a call is unfinished, some unfinished call
\* can take a step that changes the state; and every call returns in the
\* end: the calls being finitely many, at all times there is a later time
\* at which no call is unfinished.
C22_Termination ==
    /\ []((\E th \in Threads : Active(th))
            => ENABLED (\E th \in Threads : Proceed(th) \/ TryOk(th)))
    /\ []<>(\A th \in Threads : ~Active(th))

\* C22 witness: a strong_pop waits at the flag of a subqueue that a clear
\* holds.
C22_Witness ==
    \E th \in Threads, u \in Threads :
        /\ th # u
        /\ pc[th] = "spop" /\ pc[u] = "clear_cs"
        /\ i[th] = i[u] /\ cas_lock[i[th]]

\* Thread th's clear has emptied subqueue j earlier in its call.
Emptied(th, j) ==
    Kind(th) = "clear" /\ (j < i[th] \/ (j = i[th] /\ pc[th] = "clear_rel"))

\* The elements a push inserts into subqueue j in this step.
PushedInto(j) ==
    IF \E u \in Threads : PushStep(u) /\ i[u] = j
    THEN SetToBag({t[CHOOSE u \in Threads : PushStep(u) /\ i[u] = j]})
    ELSE EmptyBag

\* C23: what clear guarantees under concurrency.  The step of clear on the
\* subqueue it has locked removes everything resident there; from then
\* until clear returns, that subqueue gains nothing but what a push inserts
\* into it: so what is resident when clear returns was inserted after
\* clear emptied its subqueue, and when no push was concurrent nothing is.
C23_ClearGuarantee ==
    [][\A th \in Threads :
         /\ (pc[th] = "clear_cs" /\ pc'[th] = "clear_rel") => pq'[i[th]] = <<>>
         /\ \A j \in Shards :
               Emptied(th, j) =>
                  BagOfSeq(pq'[j]) \sqsubseteq (BagOfSeq(pq[j]) (+) PushedInto(j))
         /\ (ClearReturns(th) /\ "push" \notin conc[th]) => AllEmpty]_vars

\* C24: the sampler's range matches the subqueue array.  The queue has at
\* least one subqueue; the indices push and pop can sample are exactly the
\* indices of the array of heaps and of flags, and every index a call works
\* on is one of them; no step changes the number of subqueues or the
\* distribution; and a clone gets as many subqueues as the source, whose
\* distribution it copies.
C24_SamplerRange ==
    /\ [](/\ limit >= 1
          /\ DOMAIN pq = 0..(limit - 1)
          /\ DOMAIN cas_lock = DOMAIN pq
          /\ Sampled = DOMAIN pq
          /\ \A th \in Threads : Active(th) => i[th] \in DOMAIN pq)
    /\ [][/\ limit' = limit
          /\ DOMAIN pq' = DOMAIN pq
          /\ \A th \in Threads : CloneReturns(th) => Len(snap[th]) = limit]_vars

\* C24 witness: after a clear or a drain, on a queue of two subqueues, a
\* push has sampled the index 1 and is at its CAS while a clone, which has
\* copied both subqueues, still holds that subqueue.
C24_Witness ==
    \E th \in Threads, u \in Threads :
        /\ limit = 2 /\ wiped
        /\ pc[th] = "push" /\ i[th] = 1
        /\ pc[u] = "read_rel" /\ i[u] = 1 /\ Len(snap[u]) = 2

\* C25: memory ordering of the subqueue lock.  The heap writes of one
\* critical section happen before the heap accesses of the next critical
\* section on the same subqueue: whatever a critical section reads of the
\* heap (try_push and try_pop before they change it, clone and fmt when they
\* copy it) is the heap as the previous critical section left it.
C25_ReleaseAcquire == [][Ordered]_vars

====
